---- MODULE Spec2Model ----
(***************************************************************************)
(* Layered configuration of gas (src/gas/core/config.py and                *)
(* src/gas/commands/config.py): two scope files (local, global), the       *)
(* resolver Config.load, and the accessor Config.get_value /               *)
(* Config.set_value (Spec); the `gas config` command handlers, one per     *)
(* process (SpecCli); and the retry loop of AIClient.generate in           *)
(* src/gas/core/ai.py (SpecAI).                                            *)
(*                                                                         *)
(* Values.  A Python scalar is a record [kind, s, n]: kind is one of       *)
(* "str", "int", "float", "bool"; s holds a string, n a number.  A float   *)
(* is kept in tenths (0.7 is n = 7, 2.0 is n = 20), a bool as 0 / 1.       *)
(* A YAML document and model_dump() are trees: a node is either a scalar  *)
(* leaf or a dict from keys to nodes.                                      *)
(***************************************************************************)
EXTENDS Integers, Sequences, FiniteSets, TLC

VARIABLES
    localFile,      \* CONFIG_PATHS["local"]  (.gas.yaml)
    globalFile,     \* CONFIG_PATHS["global"] (~/.config/gas/config.yml)
    config,         \* the module global gas.core.config.config
    caller_config,  \* the Config instance the callers hold (bound at import)
    running,        \* the process got past its import-time Config.load()
    lastOp,         \* the last operation and its outcome
    nSets,          \* number of set_value calls made so far
    cmd,            \* the last `gas config` command handler run and its outcome
    pc,             \* AIClient.generate: where the call stands
    max_retries,    \* AIClient.max_retries
    attempt,        \* generate's loop variable
    prompt,         \* generate's `prompt`, a sequence of text pieces
    max_tokens,     \* generate's `max_tokens` after the config fallback
    temperature,    \* generate's `temperature` after the config fallback
    last_error,     \* generate's `last_error`
    calls,          \* the chat.completions.create calls made, in order
    sleeps,         \* the time.sleep calls made: the attempt each followed
    result          \* how generate ended: "returned" or "ValueError"

cfgVars == <<localFile, globalFile, config, caller_config, running, lastOp, nSets>>
aiVars == <<pc, max_retries, attempt, prompt, max_tokens, temperature,
            last_error, calls, sleeps, result>>
vars == <<cfgVars, cmd, aiVars>>

\* Bound on the number of set_value calls in one behaviour.
MaxSets == 2

\* Bound on the max_retries an AIClient is built with.
MaxRetries == 3

----------------------------------------------------------------------------
(* Scalars and trees *)

PyStr(x) == [kind |-> "str", s |-> x, n |-> 0]
PyInt(x) == [kind |-> "int", s |-> "", n |-> x]
PyFloat(tenths) == [kind |-> "float", s |-> "", n |-> tenths]
PyBool(b) == [kind |-> "bool", s |-> "", n |-> IF b THEN 1 ELSE 0]
NoScalar == [kind |-> "none", s |-> "", n |-> 0]

EmptyMap == [k \in {} |-> NoScalar]
Leaf(v) == [isdict |-> FALSE, sc |-> v, d |-> EmptyMap]
Dict(m) == [isdict |-> TRUE, sc |-> NoScalar, d |-> m]
EmptyDict == Dict(EmptyMap)

----------------------------------------------------------------------------
(* Schema: AIConfig, UserConfig, Config *)

Sections == {"ai", "user"}

Fields(sec) ==
    IF sec = "ai" THEN {"model", "temperature", "max_tokens"}
    ELSE {"language", "emoji_enabled"}

LeafPaths ==
    { <<"ai", "model">>, <<"ai", "temperature">>, <<"ai", "max_tokens">>,
      <<"user", "language">>, <<"user", "emoji_enabled">> }

FieldKind(sec, f) ==
    CASE f = "model" -> "str"
      [] f = "temperature" -> "float"
      [] f = "max_tokens" -> "int"
      [] f = "language" -> "str"
      [] OTHER -> "bool"

DefaultMut(sec, f) ==
    CASE f = "model" -> PyStr("CohereLabs/c4ai-command-a-03-2025")
      [] f = "temperature" -> PyFloat(10)
      [] f = "max_tokens" -> PyInt(1000)
      [] f = "language" -> PyStr("en")
      [] OTHER -> PyBool(FALSE)

Default(sec, f) ==
    CASE f = "model" -> PyStr("CohereLabs/c4ai-command-a-03-2025")
      [] f = "temperature" -> PyFloat(7)
      [] f = "max_tokens" -> PyInt(500)
      [] f = "language" -> PyStr("en")
      [] OTHER -> PyBool(TRUE)

InRangeMut(sec, f, v) == TRUE

\* Field(ge=0.0, le=1.0) on temperature, Field(gt=0) on max_tokens.
InRange(sec, f, v) ==
    CASE f = "temperature" -> 0 <= v.n /\ v.n <= 10
      [] f = "max_tokens" -> v.n > 0
      [] OTHER -> TRUE

\* The strings pydantic's lax mode reads as a bool.
BoolStrings ==
    {"0", "off", "f", "false", "n", "no", "1", "on", "t", "true", "y", "yes"}
TrueStrings == {"1", "on", "t", "true", "y", "yes"}

\* pydantic's lax-mode coercion of a raw node to a declared kind.  The
\* strings of this model are not numerals, so a string never reads as a
\* number.
Coerce(kind, node) ==
    LET v == node.sc
        bad == [ok |-> FALSE, v |-> NoScalar]
        good(x) == [ok |-> TRUE, v |-> x] IN
    IF node.isdict THEN bad
    ELSE CASE kind = "str" ->
                IF v.kind = "str" THEN good(v) ELSE bad
           [] kind = "float" ->
                IF v.kind = "float" THEN good(v)
                ELSE IF v.kind \in {"int", "bool"} THEN good(PyFloat(10 * v.n))
                ELSE bad
           [] kind = "int" ->
                IF v.kind = "int" THEN good(v)
                ELSE IF v.kind = "bool" THEN good(PyInt(v.n))
                ELSE IF v.kind = "float" /\ v.n % 10 = 0 THEN good(PyInt(v.n \div 10))
                ELSE bad
           [] OTHER ->
                IF v.kind = "bool" THEN good(v)
                ELSE IF v.kind = "int" /\ v.n \in {0, 1} THEN good(PyBool(v.n = 1))
                ELSE IF v.kind = "float" /\ v.n \in {0, 10} THEN good(PyBool(v.n = 10))
                ELSE IF v.kind = "str" /\ v.s \in BoolStrings
                     THEN good(PyBool(v.s \in TrueStrings))
                ELSE bad

\* Validation of one field of one section of the merged dict: the raw value
\* coerced and range-checked, or the default when the section does not
\* define the field.
ValidateField(sec, f, secMap) ==
    IF f \notin DOMAIN secMap THEN [ok |-> TRUE, v |-> Default(sec, f)]
    ELSE LET c == Coerce(FieldKind(sec, f), secMap[f]) IN
         IF c.ok /\ InRange(sec, f, c.v) THEN c ELSE [ok |-> FALSE, v |-> NoScalar]

\* Config(): every field at its default.
DefaultConfig == [sec \in Sections |-> [f \in Fields(sec) |-> Default(sec, f)]]

\* cls.model_validate(config_dict): a section the dict lacks is built by
\* its default_factory; a section that is not a mapping is an error; keys
\* the schema does not declare are ignored.
ModelValidate(top) ==
    LET secMap(sec) == IF sec \in DOMAIN top THEN top[sec].d ELSE EmptyMap
        secOk(sec) ==
            \/ sec \notin DOMAIN top
            \/ /\ top[sec].isdict
               /\ \A f \in Fields(sec) : ValidateField(sec, f, secMap(sec)).ok
    IN IF \A sec \in Sections : secOk(sec)
       THEN [ok |-> TRUE,
             cfg |-> [sec \in Sections |->
                        [f \in Fields(sec) |-> ValidateField(sec, f, secMap(sec)).v]]]
       ELSE [ok |-> FALSE, cfg |-> DefaultConfig]

\* self.model_dump(): the instance as a tree.
ModelDump(cfg) ==
    Dict([sec \in Sections |-> Dict([f \in Fields(sec) |-> Leaf(cfg[sec][f])])])

----------------------------------------------------------------------------
(* File store and resolver *)

AbsentFile == [exists |-> FALSE, root |-> EmptyDict]
FileOf(m) == [exists |-> TRUE, root |-> Dict(m)]

\* _load_file: the file's mapping ({} for an empty document), None when the
\* file does not exist.  None and {} are both falsy for load, so both read
\* as the empty mapping here.
LoadFile(file) == IF file.exists THEN file.root.d ELSE EmptyMap

UpdateMut(base, over) == IF DOMAIN over = {} THEN base ELSE over

\* dict.update: the keys of `over` replace those of `base`, whole values.
Update(base, over) ==
    [k \in (DOMAIN base) \cup (DOMAIN over) |->
        IF k \in DOMAIN over THEN over[k] ELSE base[k]]

LoadMut(lf, gf) ==
    ModelValidate(Update(Update(EmptyMap, LoadFile(lf)), LoadFile(gf)))

\* Config.load: global first, local over it, then validation.
Load(lf, gf) ==
    ModelValidate(Update(Update(EmptyMap, LoadFile(gf)), LoadFile(lf)))

----------------------------------------------------------------------------
(* Accessor: dot-path traversal *)

\* The path segments s for which Python's `s in text` holds, for the
\* strings and the third-level segments ("x", "ai") of this model: "ai" is
\* a substring of the default model name ("...c4ai-...").
Substrings(text) ==
    IF text = "CohereLabs/c4ai-command-a-03-2025" THEN {"ai"} ELSE {}

\* Python's `part in current`: key membership on a dict, substring on a
\* str, TypeError on an int, a float or a bool.
In(part, cur) ==
    IF cur.isdict THEN (IF part \in DOMAIN cur.d THEN "yes" ELSE "no")
    ELSE IF cur.sc.kind = "str"
         THEN (IF part \in Substrings(cur.sc.s) THEN "yes" ELSE "no")
    ELSE "TypeError"

NoRet == Leaf(NoScalar)

RECURSIVE GetWalk(_, _)
\* get_value's loop: `if part not in current: raise ValueError` and
\* `current = current[part]` (a str indexed by a str is a TypeError).
GetWalk(cur, parts) ==
    IF parts = <<>> THEN [res |-> "ok", ret |-> cur]
    ELSE LET t == In(Head(parts), cur) IN
         IF t = "TypeError" THEN [res |-> "TypeError", ret |-> NoRet]
         ELSE IF t = "no" THEN [res |-> "InvalidPath", ret |-> NoRet]
         ELSE IF cur.isdict THEN GetWalk(cur.d[Head(parts)], Tail(parts))
         ELSE [res |-> "TypeError", ret |-> NoRet]

\* Config.get_value(self, key_path).
GetValueOf(cfg, parts) == GetWalk(ModelDump(cfg), parts)

RECURSIVE ValidatePathMut(_, _)
ValidatePathMut(cur, parts) ==
    IF Len(parts) = 1 THEN "ok"
    ELSE LET t == In(Head(parts), cur) IN
         IF t = "TypeError" THEN "TypeError"
         ELSE IF t = "no" THEN "InvalidPath"
         ELSE IF cur.isdict THEN ValidatePathMut(cur.d[Head(parts)], Tail(parts))
         ELSE "TypeError"

RECURSIVE ValidatePath(_, _)
\* set_value's path validation: the loop over parts[:-1], then the test of
\* parts[-1] against the node reached.
ValidatePath(cur, parts) ==
    LET t == In(Head(parts), cur) IN
    IF t = "TypeError" THEN "TypeError"
    ELSE IF t = "no" THEN "InvalidPath"
    ELSE IF Len(parts) = 1 THEN "ok"
    ELSE IF cur.isdict THEN ValidatePath(cur.d[Head(parts)], Tail(parts))
    ELSE "TypeError"

AssignMut(m, k, v) ==
    [x \in (DOMAIN m) \cup {k} |-> IF x \in DOMAIN m THEN m[x] ELSE v]

\* d[k] = v on a Python dict.
Assign(m, k, v) ==
    [x \in (DOMAIN m) \cup {k} |-> IF x = k THEN v ELSE m[x]]

RECURSIVE UpdateTreeMut(_, _, _)
UpdateTreeMut(cur, parts, value) ==
    IF ~cur.isdict THEN [ok |-> FALSE, node |-> cur]
    ELSE IF Len(parts) = 1
         THEN [ok |-> TRUE, node |-> Dict(Assign(EmptyMap, parts[1], Leaf(value)))]
    ELSE LET k == Head(parts)
             sub == IF k \in DOMAIN cur.d THEN cur.d[k] ELSE EmptyDict
             r == UpdateTreeMut(sub, Tail(parts), value) IN
         IF r.ok THEN [ok |-> TRUE, node |-> Dict(Assign(cur.d, k, r.node))]
         ELSE [ok |-> FALSE, node |-> cur]

RECURSIVE UpdateTree(_, _, _)
\* set_value's update of the loaded mapping: missing intermediate mappings
\* are created, then current[parts[-1]] = value.  Any node on the way that
\* is not a mapping raises TypeError (item assignment on, or membership in,
\* a scalar) before anything is written.
UpdateTree(cur, parts, value) ==
    IF ~cur.isdict THEN [ok |-> FALSE, node |-> cur]
    ELSE IF Len(parts) = 1
         THEN [ok |-> TRUE, node |-> Dict(Assign(cur.d, parts[1], Leaf(value)))]
    ELSE LET k == Head(parts)
             sub == IF k \in DOMAIN cur.d THEN cur.d[k] ELSE EmptyDict
             r == UpdateTree(sub, Tail(parts), value) IN
         IF r.ok THEN [ok |-> TRUE, node |-> Dict(Assign(cur.d, k, r.node))]
         ELSE [ok |-> FALSE, node |-> cur]

----------------------------------------------------------------------------
(* Inputs *)

Scopes == {"local", "global"}

Paths ==
    LeafPaths \cup
    { <<"ai">>, <<"invalid", "path">>, <<"ai", "nosuchfield">>,
      <<"ai", "model", "x">>, <<"ai", "temperature", "x">>,
      <<"ai", "model", "ai">> }

\* The values a caller passes to set_value, per path.
ValuesFor(path) ==
    CASE path = <<"ai", "model">> -> {PyStr("gpt-4")}
      [] path = <<"ai", "temperature">> -> {PyFloat(5), PyInt(1), PyFloat(20)}
      [] path = <<"ai", "max_tokens">> -> {PyInt(100), PyInt(-1)}
      [] path = <<"user", "language">> -> {PyStr("de")}
      [] path = <<"user", "emoji_enabled">> -> {PyBool(FALSE), PyStr("maybe")}
      [] OTHER -> {PyStr("v")}

\* The scope files a behaviour starts from: none; an empty local file; the
\* files of test_config_local_override.
InitFiles ==
    { <<AbsentFile, AbsentFile>>,
      <<FileOf(EmptyMap), AbsentFile>>,
      <<FileOf([k \in {"user"} |-> Dict([f \in {"language"} |-> Leaf(PyStr("fr"))])]),
        FileOf([k \in {"user", "ai"} |->
                  IF k = "user" THEN Dict([f \in {"language"} |-> Leaf(PyStr("es"))])
                  ELSE Dict([f \in {"temperature"} |-> Leaf(PyFloat(5))])])>> }

----------------------------------------------------------------------------
(* State machine *)

\* No command handler has run in this process.
NoCmd == [name |-> "none", key |-> <<>>, arg |-> "", scope |-> "",
          rc |-> "", exc |-> "none", table |-> FALSE,
          rows |-> [P \in LeafPaths |-> [value |-> NoScalar, source |-> ""]]]

\* No generate call has been made.
AIIdle ==
    /\ pc = "idle"
    /\ max_retries = 0
    /\ attempt = 0
    /\ prompt = <<>>
    /\ max_tokens = NoScalar
    /\ temperature = NoScalar
    /\ last_error = "None"
    /\ calls = <<>>
    /\ sleeps = <<>>
    /\ result = "none"

NoOp == [op |-> "none", path |-> <<>>, value |-> NoScalar, scope |-> "",
         res |-> "ok", ret |-> NoRet]

\* A process has imported gas.core.config (`config = Config.load()`), and
\* the callers hold that instance.
Init ==
    /\ \E fs \in InitFiles : localFile = fs[1] /\ globalFile = fs[2]
    /\ config = Load(localFile, globalFile).cfg
    /\ caller_config = config
    /\ running = Load(localFile, globalFile).ok
    /\ lastOp = NoOp
    /\ nSets = 0
    /\ cmd = NoCmd
    /\ AIIdle

\* A new process: the import-time `config = Config.load()`, which either
\* binds the instance every importer then holds or raises.
Start ==
    LET l == Load(localFile, globalFile) IN
    /\ config' = l.cfg
    /\ caller_config' = l.cfg
    /\ running' = l.ok
    /\ lastOp' = [NoOp EXCEPT !.op = "start",
                              !.res = IF l.ok THEN "ok" ELSE "ValidationError"]
    /\ UNCHANGED <<localFile, globalFile, nSets>>

\* caller_config.get_value(key_path).
GetValue(path) ==
    LET g == GetValueOf(caller_config, path) IN
    /\ running
    /\ lastOp' = [NoOp EXCEPT !.op = "get", !.path = path, !.res = g.res, !.ret = g.ret]
    /\ UNCHANGED <<localFile, globalFile, config, caller_config, running, nSets>>

\* caller_config.set_value(key_path, value, scope): path validation against
\* self.model_dump(), load of the scope's file, update, write, and the
\* reload that rebinds the module global `config`.
SetValue(path, value, scope) ==
    LET check == ValidatePath(ModelDump(caller_config), path)
        file == IF scope = "local" THEN localFile ELSE globalFile
        tree == IF file.exists THEN file.root ELSE EmptyDict
        upd == UpdateTree(tree, path, value)
        written == [exists |-> TRUE, root |-> upd.node]
        newLocal == IF scope = "local" THEN written ELSE localFile
        newGlobal == IF scope = "global" THEN written ELSE globalFile
        l == Load(newLocal, newGlobal)
        op == [NoOp EXCEPT !.op = "set", !.path = path, !.value = value, !.scope = scope]
    IN
    /\ running
    /\ nSets < MaxSets
    /\ nSets' = nSets + 1
    /\ UNCHANGED <<caller_config, running>>
    /\ IF check # "ok"
       THEN /\ lastOp' = [op EXCEPT !.res = check]
            /\ UNCHANGED <<localFile, globalFile, config>>
       ELSE IF ~upd.ok
       THEN /\ lastOp' = [op EXCEPT !.res = "TypeError"]
            /\ UNCHANGED <<localFile, globalFile, config>>
       ELSE /\ localFile' = newLocal
            /\ globalFile' = newGlobal
            /\ IF l.ok
               THEN /\ config' = l.cfg
                    /\ lastOp' = [op EXCEPT !.res = "ok"]
               ELSE /\ config' = config
                    /\ lastOp' = [op EXCEPT !.res = "ValidationError"]

\* The accessor used as a library, as the tests do: loads, gets and sets
\* in any order.
Next ==
    \/ Start /\ UNCHANGED <<cmd, aiVars>>
    \/ \E path \in Paths : GetValue(path) /\ UNCHANGED <<cmd, aiVars>>
    \/ \E path \in Paths : \E value \in ValuesFor(path) : \E scope \in Scopes :
          SetValue(path, value, scope) /\ UNCHANGED <<cmd, aiVars>>

Spec == Init /\ [][Next]_vars

----------------------------------------------------------------------------
(* AIClient.generate (src/gas/core/ai.py) *)

\* The prompts the command modules build, as one piece of text.
BasePrompt == <<"PROMPT">>

\* f"Please respond in {language} language.\n\n{prompt}": the instruction
\* goes in front of whatever `prompt` holds.
WithLanguage(language, text) == <<language>> \o text

\* `x or fallback` on an optional argument: None and a zero are falsy.
OrElse(x, fallback) == IF x = NoScalar \/ x.n = 0 THEN fallback ELSE x

MoreAttemptsMut(a, retries) == a < retries

\* `attempt < self.max_retries - 1`: another attempt remains.
MoreAttempts(a, retries) == a < retries - 1

\* generate(prompt, max_tokens, temperature) is entered on a client built
\* with max_retries = retries; the sampling arguments fall back to the
\* configuration the module imported.
Generate(retries, tokens, temp) ==
    /\ pc \in {"idle", "done"}
    /\ running
    /\ pc' = "loop"
    /\ max_retries' = retries
    /\ attempt' = 0
    /\ prompt' = BasePrompt
    /\ max_tokens' = OrElse(tokens, caller_config["ai"]["max_tokens"])
    /\ temperature' = OrElse(temp, caller_config["ai"]["temperature"])
    /\ last_error' = "None"
    /\ calls' = <<>>
    /\ sleeps' = <<>>
    /\ result' = "none"

\* One pass of `for attempt in range(self.max_retries)` up to the return or
\* into the except branch: the language instruction, the API call (which
\* answers or raises), and on failure the choice between the backoff sleep
\* and falling through to the next value of the loop variable.
Attempt ==
    /\ pc = "loop"
    /\ attempt < max_retries
    /\ LET language == caller_config["user"]["language"].s
           sent == IF language # "en" THEN WithLanguage(language, prompt) ELSE prompt
       IN /\ prompt' = sent
          /\ \E answered \in BOOLEAN :
               /\ calls' = Append(calls, [prompt |-> sent,
                                          model |-> caller_config["ai"]["model"],
                                          temperature |-> temperature,
                                          max_tokens |-> max_tokens,
                                          ok |-> answered])
               /\ IF answered
                  THEN /\ pc' = "done"
                       /\ result' = "returned"
                       /\ UNCHANGED <<attempt, last_error>>
                  ELSE /\ last_error' = "e"
                       /\ result' = result
                       /\ IF MoreAttempts(attempt, max_retries)
                          THEN pc' = "sleep" /\ attempt' = attempt
                          ELSE pc' = "loop" /\ attempt' = attempt + 1
    /\ UNCHANGED <<max_retries, max_tokens, temperature, sleeps>>

\* time.sleep(1.5 ** attempt), then the next value of the loop variable.
Sleep ==
    /\ pc = "sleep"
    /\ sleeps' = Append(sleeps, attempt)
    /\ attempt' = attempt + 1
    /\ pc' = "loop"
    /\ UNCHANGED <<max_retries, prompt, max_tokens, temperature, last_error,
                   calls, result>>

\* The loop is over without a return: raise ValueError.
Exhausted ==
    /\ pc = "loop"
    /\ attempt >= max_retries
    /\ pc' = "done"
    /\ result' = "ValueError"
    /\ UNCHANGED <<max_retries, attempt, prompt, max_tokens, temperature,
                   last_error, calls, sleeps>>

\* The sampling arguments a caller passes: None, or a value of its own.
TokenArgs == {NoScalar, PyInt(50)}
TempArgs == {NoScalar, PyFloat(2)}

NextAI ==
    \/ \E retries \in 0..MaxRetries : \E tokens \in TokenArgs : \E temp \in TempArgs :
          Generate(retries, tokens, temp) /\ UNCHANGED <<cfgVars, cmd>>
    \/ Attempt /\ UNCHANGED <<cfgVars, cmd>>
    \/ Sleep /\ UNCHANGED <<cfgVars, cmd>>
    \/ Exhausted /\ UNCHANGED <<cfgVars, cmd>>

\* generate runs synchronously in a single-threaded process: a call that
\* has been entered keeps taking its next step.
SpecAI == Init /\ [][NextAI]_vars /\ WF_vars(NextAI)

----------------------------------------------------------------------------
(* The `gas config` command handlers (src/gas/commands/config.py) *)

\* The value arguments typed on the command line.
CliArgs == {"0.5", "2.0", "100", "-1", "abc", "True"}

\* str.lower() on the arguments of this model.
Lower(arg) == IF arg = "True" THEN "true" ELSE arg

\* int(value): the integer an argument denotes, or ValueError.
IntOf(arg) ==
    CASE arg = "100" -> [ok |-> TRUE, v |-> PyInt(100)]
      [] arg = "-1" -> [ok |-> TRUE, v |-> PyInt(-1)]
      [] OTHER -> [ok |-> FALSE, v |-> NoScalar]

\* float(value): the float an argument denotes (in tenths), or ValueError.
FloatOf(arg) ==
    CASE arg = "0.5" -> [ok |-> TRUE, v |-> PyFloat(5)]
      [] arg = "2.0" -> [ok |-> TRUE, v |-> PyFloat(20)]
      [] arg = "100" -> [ok |-> TRUE, v |-> PyFloat(1000)]
      [] arg = "-1" -> [ok |-> TRUE, v |-> PyFloat(-10)]
      [] OTHER -> [ok |-> FALSE, v |-> NoScalar]

\* The set handler's conversion of the argument by the type of the current
\* value: bool before int (a bool is an int), then int, then float; any
\* other current value (a str, a section's dict) leaves the string as is.
Convert(current, arg) ==
    IF current.isdict THEN [ok |-> TRUE, v |-> PyStr(arg)]
    ELSE CASE current.sc.kind = "bool" ->
                [ok |-> TRUE, v |-> PyBool(Lower(arg) \in {"true", "1", "yes", "on"})]
           [] current.sc.kind = "int" -> IntOf(arg)
           [] current.sc.kind = "float" -> FloatOf(arg)
           [] OTHER -> [ok |-> TRUE, v |-> PyStr(arg)]

RECURSIVE NestedValue(_, _)
\* _get_nested_value(d, keys): the node at the keys, None (NoRet) when a
\* key is missing or a node on the way is not a dict.
NestedValue(d, keys) ==
    IF keys = <<>> THEN d
    ELSE IF ~d.isdict \/ Head(keys) \notin DOMAIN d.d THEN NoRet
    ELSE NestedValue(d.d[Head(keys)], Tail(keys))

\* The Source column of the `config get` table for one option.
SourceOf(path) ==
    IF NestedValue(Dict(LoadFile(localFile)), path) # NoRet THEN "local"
    ELSE IF NestedValue(Dict(LoadFile(globalFile)), path) # NoRet THEN "global"
    ELSE "default"

\* A command handler runs once, in a process that has just imported the
\* configuration.
Fresh == running /\ cmd.name = "none" /\ lastOp.op \in {"none", "start"}

GetRecord(path, g) ==
    [NoOp EXCEPT !.op = "get", !.path = path, !.res = g.res, !.ret = g.ret]

\* gas config set KEY VALUE --scope SCOPE: get_value for the type, the
\* conversion, set_value; ValueError is caught and turned into `return 1`,
\* anything else leaves the handler as an exception.
CliSet(key, arg, scope) ==
    LET g == GetValueOf(caller_config, key)
        conv == Convert(g.ret, arg)
        c == [NoCmd EXCEPT !.name = "set", !.key = key, !.arg = arg, !.scope = scope]
        frame == UNCHANGED <<localFile, globalFile, config, caller_config, running, nSets>>
    IN
    /\ Fresh
    /\ nSets < MaxSets
    /\ IF g.res = "InvalidPath"
       THEN cmd' = [c EXCEPT !.rc = "1"] /\ lastOp' = GetRecord(key, g) /\ frame
       ELSE IF g.res = "TypeError"
       THEN cmd' = [c EXCEPT !.exc = "TypeError"] /\ lastOp' = GetRecord(key, g) /\ frame
       ELSE IF ~conv.ok
       THEN cmd' = [c EXCEPT !.rc = "1"] /\ lastOp' = GetRecord(key, g) /\ frame
       ELSE /\ SetValue(key, conv.v, scope)
            /\ cmd' = CASE lastOp'.res = "ok" -> [c EXCEPT !.rc = "None"]
                        [] lastOp'.res = "TypeError" -> [c EXCEPT !.exc = "TypeError"]
                        [] OTHER -> [c EXCEPT !.rc = "1"]

\* gas config get KEY.
CliGetKey(key) ==
    LET g == GetValueOf(caller_config, key)
        c == [NoCmd EXCEPT !.name = "get", !.key = key]
    IN
    /\ Fresh
    /\ lastOp' = GetRecord(key, g)
    /\ cmd' = CASE g.res = "ok" -> [c EXCEPT !.rc = "None"]
                [] g.res = "TypeError" -> [c EXCEPT !.exc = "TypeError"]
                [] OTHER -> [c EXCEPT !.rc = "1"]
    /\ UNCHANGED <<localFile, globalFile, config, caller_config, running, nSets>>

\* gas config get, without a key: one row per option of list_options(),
\* with the imported configuration's value and the source found in the
\* scope files.
CliGetTable ==
    LET last == <<"user", "emoji_enabled">> IN
    /\ Fresh
    /\ cmd' = [NoCmd EXCEPT !.name = "get", !.rc = "None", !.table = TRUE,
                 !.rows = [P \in LeafPaths |->
                              [value |-> GetValueOf(caller_config, P).ret.sc,
                               source |-> SourceOf(P)]]]
    /\ lastOp' = GetRecord(last, GetValueOf(caller_config, last))
    /\ UNCHANGED <<localFile, globalFile, config, caller_config, running, nSets>>

\* The command line: every command is a new process running one handler.
NextCli ==
    \/ Start /\ cmd' = NoCmd /\ UNCHANGED aiVars
    \/ \E key \in Paths : \E arg \in CliArgs : \E scope \in Scopes :
          CliSet(key, arg, scope) /\ UNCHANGED aiVars
    \/ \E key \in Paths : CliGetKey(key) /\ UNCHANGED aiVars
    \/ CliGetTable /\ UNCHANGED aiVars

SpecCli == Init /\ [][NextCli]_vars

----------------------------------------------------------------------------
(* Vocabulary of the properties *)

\* Equality of two scalars as Python's == has it: numbers compare by value
\* across int, float and bool (1 == 1.0); strings compare with strings only.
NumKinds == {"int", "float", "bool"}
Tenths(v) == IF v.kind = "float" THEN v.n ELSE 10 * v.n
PyEq(a, b) ==
    IF a.kind \in NumKinds /\ b.kind \in NumKinds THEN Tenths(a) = Tenths(b)
    ELSE a.kind = "str" /\ b.kind = "str" /\ a.s = b.s

\* Every top-level entry of the scope file is a mapping.
SectionsAreMappings(file) ==
    \A k \in DOMAIN file.root.d : file.root.d[k].isdict

\* The scope file defines leaf path P: its section is a mapping holding P's
\* field.
Defines(file, P) ==
    /\ file.exists
    /\ P[1] \in DOMAIN file.root.d
    /\ file.root.d[P[1]].isdict
    /\ P[2] \in DOMAIN file.root.d[P[1]].d

\* The raw scalar the file holds at P.
RawAt(file, P) == file.root.d[P[1]].d[P[2]].sc

\* A fresh resolve() over the files as they are now.
Resolved == Load(localFile, globalFile)

At(cfg, P) == cfg[P[1]][P[2]]

\* The schema defaults, as the specification lists them.
SpecDefault(P) ==
    CASE P = <<"ai", "model">> -> PyStr("CohereLabs/c4ai-command-a-03-2025")
      [] P = <<"ai", "temperature">> -> PyFloat(7)
      [] P = <<"ai", "max_tokens">> -> PyInt(500)
      [] P = <<"user", "language">> -> PyStr("en")
      [] OTHER -> PyBool(TRUE)

\* V is of P's declared kind and within P's declared range.
Satisfies(P, V) ==
    CASE P = <<"ai", "model">> -> V.kind = "str"
      [] P = <<"ai", "temperature">> ->
            V.kind \in {"float", "int"} /\ 0 <= Tenths(V) /\ Tenths(V) <= 10
      [] P = <<"ai", "max_tokens">> -> V.kind = "int" /\ V.n > 0
      [] P = <<"user", "language">> -> V.kind = "str"
      [] OTHER -> V.kind = "bool"

\* V is a number outside P's declared range.
ViolatesRange(P, V) ==
    /\ V.kind \in {"float", "int"}
    /\ \/ P = <<"ai", "temperature">> /\ (Tenths(V) < 0 \/ Tenths(V) > 10)
       \/ P = <<"ai", "max_tokens">> /\ Tenths(V) <= 0

\* Every field of an in-process configuration is of its declared kind and
\* within its declared range.
WellTyped(cfg) ==
    /\ cfg["ai"]["model"].kind = "str"
    /\ cfg["ai"]["temperature"].kind = "float"
    /\ 0 <= cfg["ai"]["temperature"].n /\ cfg["ai"]["temperature"].n <= 10
    /\ cfg["ai"]["max_tokens"].kind = "int"
    /\ cfg["ai"]["max_tokens"].n > 0
    /\ cfg["user"]["language"].kind = "str"
    /\ cfg["user"]["emoji_enabled"].kind = "bool"

\* The path names something the schema does not declare where a section or
\* a field name is expected.
Undeclared(path) ==
    /\ Len(path) >= 1
    /\ \/ path[1] \notin Sections
       \/ Len(path) >= 2 /\ path[2] \notin Fields(path[1])

\* The path stops at a section, or goes on past a leaf field.
NotAtLeaf(path) ==
    \/ Len(path) = 1 /\ path[1] \in Sections
    \/ Len(path) > 2 /\ SubSeq(path, 1, 2) \in LeafPaths

----------------------------------------------------------------------------
(* Properties *)

\* C1 (precedence law): whenever the local and the global file both define
\* a leaf path P and the files resolve, resolve() yields the local file's
\* value at P.
C1_LocalWins ==
    \A P \in LeafPaths :
        (Defines(localFile, P) /\ Defines(globalFile, P) /\ Resolved.ok)
            => PyEq(At(Resolved.cfg, P), RawAt(localFile, P))

\* A process started on files that both define P, with different values,
\* and holds the local one.
C1_Witness ==
    /\ lastOp.op = "start" /\ running
    /\ \E P \in LeafPaths :
          /\ Defines(localFile, P) /\ Defines(globalFile, P)
          /\ ~PyEq(RawAt(localFile, P), RawAt(globalFile, P))
          /\ PyEq(At(caller_config, P), RawAt(localFile, P))

\* C2: whenever the global file defines a leaf path P and the local file
\* does not, resolve() yields the global file's value at P, whatever else
\* the local file defines.
C2_GlobalOnly ==
    \A P \in LeafPaths :
        (Defines(globalFile, P) /\ ~Defines(localFile, P) /\ Resolved.ok)
            => PyEq(At(Resolved.cfg, P), RawAt(globalFile, P))

\* C3: whenever neither file defines a leaf path P (absent and empty files
\* included) and the files resolve, resolve() yields the schema default at
\* P: the model name, 0.7, 500, "en", true.
C3_Defaults ==
    \A P \in LeafPaths :
        (~Defines(localFile, P) /\ ~Defines(globalFile, P) /\ Resolved.ok)
            => At(Resolved.cfg, P) = SpecDefault(P)

\* A process started on files of which one defines some field, and holds
\* the default at a path neither defines.
C3_Witness ==
    /\ lastOp.op = "start" /\ running
    /\ \E Q \in LeafPaths : Defines(localFile, Q) \/ Defines(globalFile, Q)
    /\ \E P \in LeafPaths :
          /\ ~Defines(localFile, P) /\ ~Defines(globalFile, P)
          /\ At(caller_config, P) = SpecDefault(P)

C5_SameProcessVisibility ==
    [][ (/\ lastOp.op = "set" /\ lastOp.res = "ok"
         /\ lastOp.path \in LeafPaths
         /\ lastOp'.op = "get" /\ lastOp'.path = lastOp.path)
            => (/\ lastOp'.res = "ok"
                /\ lastOp'.ret = Leaf(At(Load(localFile', globalFile').cfg, lastOp.path))) ]_vars

\* C6 (ResolvedConfig invariant): whatever loads, sets (failed ones
\* included) and gets have happened, every field of the in-process
\* configuration - the module global and the instance the callers hold -
\* is of its declared kind and within its declared range.
C6_ResolvedWellTyped == WellTyped(config) /\ WellTyped(caller_config)

\* A set of an out-of-range value has been rejected at the reload, and the
\* rejected value stands in the file.
C6_Witness ==
    /\ lastOp.op = "set" /\ lastOp.res = "ValidationError"
    /\ ViolatesRange(lastOp.path, lastOp.value)
    /\ \E file \in {localFile, globalFile} :
          Defines(file, lastOp.path) /\ RawAt(file, lastOp.path) = lastOp.value
    /\ WellTyped(config)

\* C7: a set(P, V, scope) of a value V outside P's declared range
\* (ai.temperature outside [0, 1], ai.max_tokens not above 0) fails with
\* ValidationError, for either scope and any contents of the scope files
\* (taken here among the files whose sections are mappings).
C7_RangeRejected ==
    (/\ lastOp.op = "set" /\ ViolatesRange(lastOp.path, lastOp.value)
     /\ SectionsAreMappings(localFile) /\ SectionsAreMappings(globalFile))
        => lastOp.res = "ValidationError"

\* C8 (validate before persist): a set that fails with InvalidPath or with
\* ValidationError leaves both scope files as they were.
C8_FailedSetWritesNothing ==
    [][ (/\ lastOp'.op = "set" /\ nSets' = nSets + 1
         /\ lastOp'.res \in {"InvalidPath", "ValidationError"})
            => (localFile' = localFile /\ globalFile' = globalFile) ]_vars

\* C9: get(path) and set(path, value, scope) fail with InvalidPath for
\* every path that names an undeclared section or an undeclared field of a
\* section ("invalid.path", "ai.nosuchfield"), for any value and scope.
C9_UndeclaredIsInvalidPath ==
    (lastOp.op \in {"get", "set"} /\ Undeclared(lastOp.path))
        => lastOp.res = "InvalidPath"

\* A set of an undeclared field of a declared section has been refused.
C9_Witness ==
    /\ lastOp.op = "set"
    /\ lastOp.path = <<"ai", "nosuchfield">>
    /\ lastOp.res = "InvalidPath"

\* C10: get(path) and set(path, value, scope) fail with InvalidPath for
\* every path that stops at a section or continues past a leaf field.
C10_NonLeafIsInvalidPath ==
    (lastOp.op \in {"get", "set"} /\ NotAtLeaf(lastOp.path))
        => lastOp.res = "InvalidPath"

\* The scope files of test_config_local_override: global sets
\* user.language es and ai.temperature 0.5, local sets user.language fr.
OverrideLocal ==
    FileOf([k \in {"user"} |-> Dict([f \in {"language"} |-> Leaf(PyStr("fr"))])])
OverrideGlobal ==
    FileOf([k \in {"user", "ai"} |->
              IF k = "user" THEN Dict([f \in {"language"} |-> Leaf(PyStr("es"))])
              ELSE Dict([f \in {"temperature"} |-> Leaf(PyFloat(5))])])

\* The step is a set_value call of a leaf path that returned normally.
SetSucceeded ==
    /\ lastOp'.op = "set" /\ nSets' = nSets + 1
    /\ lastOp'.res = "ok"
    /\ lastOp'.path \in LeafPaths

\* C11 (single-field update): a successful set(P, V, scope) leaves the
\* target scope's file equal to its prior mapping with only P changed to V
\* (a missing section mapping is created, every other section and field is
\* kept), and leaves the other scope's file unchanged.
C11_SingleFieldUpdate ==
    [][ SetSucceeded =>
          LET P == lastOp'.path
              isLocal == lastOp'.scope = "local"
              old == LoadFile(IF isLocal THEN localFile ELSE globalFile)
              new == IF isLocal THEN localFile' ELSE globalFile'
              oldSec == IF P[1] \in DOMAIN old THEN old[P[1]].d ELSE EmptyMap
          IN /\ IF isLocal THEN globalFile' = globalFile ELSE localFile' = localFile
             /\ new.exists /\ new.root.isdict
             /\ DOMAIN new.root.d = (DOMAIN old) \cup {P[1]}
             /\ \A k \in (DOMAIN old) \ {P[1]} : new.root.d[k] = old[k]
             /\ new.root.d[P[1]].isdict
             /\ DOMAIN new.root.d[P[1]].d = (DOMAIN oldSec) \cup {P[2]}
             /\ \A f \in (DOMAIN oldSec) \ {P[2]} : new.root.d[P[1]].d[f] = oldSec[f]
             /\ new.root.d[P[1]].d[P[2]] = Leaf(lastOp'.value) ]_vars

\* A successful set has written P into a file that keeps another field of
\* P's section and another section.
C11_Witness ==
    /\ lastOp.op = "set" /\ lastOp.res = "ok" /\ lastOp.path \in LeafPaths
    /\ LET file == IF lastOp.scope = "local" THEN localFile ELSE globalFile
           P == lastOp.path
       IN /\ Defines(file, P) /\ RawAt(file, P) = lastOp.value
          /\ \E f \in DOMAIN file.root.d[P[1]].d : f # P[2]
          /\ \E k \in DOMAIN file.root.d : k # P[1]

\* C12 (scopes combine across sections): a field the global file defines
\* in a section the local file does not mention resolves to the global
\* value; for the files of test_config_local_override resolve() yields
\* language fr (local), temperature 0.5 (global) and max_tokens 500
\* (default).
C12_SectionsCombine ==
    /\ \A P \in LeafPaths :
          (/\ Defines(globalFile, P)
           /\ P[1] \notin DOMAIN LoadFile(localFile)
           /\ Resolved.ok)
              => PyEq(At(Resolved.cfg, P), RawAt(globalFile, P))
    /\ (localFile = OverrideLocal /\ globalFile = OverrideGlobal)
          => /\ Resolved.ok
             /\ Resolved.cfg["user"]["language"] = PyStr("fr")
             /\ Resolved.cfg["ai"]["temperature"] = PyFloat(5)
             /\ Resolved.cfg["ai"]["max_tokens"] = PyInt(500)

\* A process started on the files of test_config_local_override and holds
\* the combined configuration.
C12_Witness ==
    /\ lastOp.op = "start" /\ running
    /\ localFile = OverrideLocal /\ globalFile = OverrideGlobal
    /\ caller_config["user"]["language"] = PyStr("fr")
    /\ caller_config["ai"]["temperature"] = PyFloat(5)
    /\ caller_config["ai"]["max_tokens"] = PyInt(500)

\* C14 (frame of set on the resolved view): a successful set(P, V, scope)
\* over files that resolved before it changes the resolved value of no leaf
\* path other than P.
C14_SetChangesOnlyP ==
    [][ (SetSucceeded /\ Load(localFile, globalFile).ok) =>
          \A Q \in LeafPaths \ {lastOp'.path} :
              At(Load(localFile', globalFile').cfg, Q)
                  = At(Load(localFile, globalFile).cfg, Q) ]_vars

\* What holds of a generate call at every moment: no more API calls than
\* max_retries, every sleep followed an attempt after which another one
\* remained, a return follows the first call that answered and nothing
\* else, and ValueError is raised exactly when max_retries calls were made
\* and all of them failed.
RetrySafety ==
    /\ Len(calls) <= max_retries
    /\ \A i \in 1..Len(sleeps) : sleeps[i] + 1 < max_retries
    /\ Len(sleeps) <= Len(calls)
    /\ \A i \in 1..Len(calls) : calls[i].ok => (i = Len(calls) /\ result = "returned")
    /\ result = "returned" =>
          (pc = "done" /\ Len(calls) >= 1 /\ calls[Len(calls)].ok
           /\ Len(sleeps) = Len(calls) - 1)
    /\ result = "ValueError" <=>
          (/\ pc = "done"
           /\ Len(calls) = max_retries
           /\ \A i \in 1..Len(calls) : ~calls[i].ok)
    /\ result = "ValueError" =>
          Len(sleeps) = (IF max_retries = 0 THEN 0 ELSE max_retries - 1)

\* C15 (bounded retry): generate calls the API at most max_retries times,
\* returns on the first call that answers without calling again, sleeps
\* only when another attempt remains, raises ValueError exactly when all
\* max_retries attempts failed, and every call that is entered ends.
C15_BoundedRetry == []RetrySafety /\ ((pc = "loop") ~> (pc = "done"))

\* A call made with max_retries >= 2 has failed every attempt, slept
\* between them and raised.
C15_Witness ==
    /\ pc = "done" /\ result = "ValueError"
    /\ max_retries >= 2
    /\ Len(calls) = max_retries
    /\ Len(sleeps) = max_retries - 1

\* C16 (one prompt for every attempt): every API call of a generate call
\* sends the prompt the first call sent.
C16_SamePromptOnRetry ==
    \A i \in 1..Len(calls) : calls[i].prompt = calls[1].prompt

\* The arguments that are numerals, those that are integer numerals, and
\* the number (in tenths) a numeral denotes.
Numerals == {"0.5", "2.0", "100", "-1"}
IntegerNumerals == {"100", "-1"}
ArgTenths(arg) ==
    CASE arg = "0.5" -> 5 [] arg = "2.0" -> 20 [] arg = "100" -> 1000 [] OTHER -> -10

\* The argument cannot be coerced to the kind of leaf P, or is outside P's
\* declared range.
BadArg(P, arg) ==
    CASE P = <<"ai", "temperature">> ->
            arg \notin Numerals \/ ArgTenths(arg) < 0 \/ ArgTenths(arg) > 10
      [] P = <<"ai", "max_tokens">> ->
            arg \notin IntegerNumerals \/ ArgTenths(arg) <= 0
      [] OTHER -> FALSE

\* C13: the `config set` handler returns 1 whenever the key is no leaf
\* path or the value fails coercion or its range constraint, returns no
\* failure indicator when the value is accepted, and lets no failure
\* escape as an exception.
C13_SetHandlerReturns ==
    cmd.name = "set" =>
        /\ cmd.exc = "none"
        /\ (cmd.key \notin LeafPaths \/ BadArg(cmd.key, cmd.arg)) => cmd.rc = "1"
        /\ (cmd.key \in LeafPaths /\ ~BadArg(cmd.key, cmd.arg)) => cmd.rc = "None"

\* C17: in the `config get` table the Source of a row names the origin of
\* the value the row shows: "local" only with the local file's value,
\* "global" only with the global file's value, "default" only with the
\* schema default.
C17_SourceNamesOrigin ==
    (cmd.name = "get" /\ cmd.table) =>
        \A P \in LeafPaths :
            LET row == cmd.rows[P] IN
            /\ row.source = "local" =>
                  (Defines(localFile, P) /\ PyEq(row.value, RawAt(localFile, P)))
            /\ row.source = "global" =>
                  (Defines(globalFile, P) /\ PyEq(row.value, RawAt(globalFile, P)))
            /\ row.source = "default" => row.value = SpecDefault(P)

====
